---- MODULE Spec2Model ----
(***************************************************************************)
(* SageMaker training component                                            *)
(* (components/aws/sagemaker/train/src/sagemaker_training_component.py).   *)
(*                                                                         *)
(* The component is one concrete instantiation of the template-method      *)
(* orchestrator SageMakerComponent: Do assigns the job identity, the base  *)
(* class builds the request, submits it, polls the job, relays its logs    *)
(* and extracts the outputs through the hooks defined in this file.        *)
(*                                                                         *)
(* Strings are sequences of tokens (a token is one character wherever the  *)
(* code looks inside the string: lower(), strip(), split(",")), so that    *)
(* the conversions are computed and not assumed.  A mapping is a function  *)
(* whose DOMAIN is the set of keys present; dict.get of an absent key is   *)
(* None.                                                                   *)
(*                                                                         *)
(* The file uses logging, built_in_algos and get_image_uri, which are      *)
(* collaborators defined outside it (the logging facility, the built-in    *)
(* algorithm catalog and its image resolver); they are modelled from the   *)
(* specification.  The name job_name used at lines 66 and 69 is no         *)
(* collaborator: nothing in the class or the module binds it.              *)
(***************************************************************************)
EXTENDS Integers, Sequences, FiniteSets, TLC

VARIABLES
    inputs,              \* spec.inputs
    outputs,             \* spec.outputs
    training_job_name,   \* self._training_job_name
    job_name,            \* the module global job_name read at lines 66, 69
    request,             \* the request _create_job_request returned
    state,               \* orchestrator state (Created .. Cancelled)
    pc,                  \* position of the single thread of control
    error,               \* the error the run surfaced
    log,                 \* logging calls made, oldest first
    calls,               \* remote calls made, oldest first
    lookups,             \* job names resolved by the hooks that name a job
    remote,              \* statuses the remote job reports, in order
    failure_reason,      \* FailureReason the remote reports when Failed
    polls,               \* describe calls made by the poll loop
    now                  \* clock read by _generate_unique_timestamped_id

vars == <<inputs, outputs, training_job_name, job_name, request, state, pc,
          error, log, calls, lookups, remote, failure_reason, polls, now>>

(***************************************************************************)
(* Bounds                                                                  *)
(***************************************************************************)
MaxObs == 2          \* longest script of remote statuses
MaxChannels == 1     \* most input channels in a Spec
MaxClock == 1        \* clock values at the start of a run

(***************************************************************************)
(* Python values                                                           *)
(***************************************************************************)
None == <<"<None>">>
Unbound == <<"<unbound>">>
EmptyMap == <<>>

Truthy(v) == v # None /\ v # <<>>

Get(m, k) == IF k \in DOMAIN m THEN m[k] ELSE None

Put(m, k, v) == [x \in DOMAIN m \cup {k} |-> IF x = k THEN v ELSE m[x]]

Pop(m, k) == [x \in DOMAIN m \ {k} |-> m[x]]

PutIn(m, k1, k2, v) == Put(m, k1, Put(m[k1], k2, v))

PopIn(m, k1, k2) == Put(m, k1, Pop(m[k1], k2))

Whitespace == {" ", "\t", "\n"}

UpperCase == ("X" :> "x") @@ ("G" :> "g") @@ ("B" :> "b") @@ ("O" :> "o")
             @@ ("S" :> "s") @@ ("T" :> "t") @@ ("K" :> "k") @@ ("M" :> "m")
             @@ ("E" :> "e") @@ ("A" :> "a") @@ ("N" :> "n")

Lower(s) ==
    [i \in 1..Len(s) |-> IF s[i] \in DOMAIN UpperCase THEN UpperCase[s[i]] ELSE s[i]]

RECURSIVE LStrip(_)
LStrip(s) == IF s # <<>> /\ Head(s) \in Whitespace THEN LStrip(Tail(s)) ELSE s

RECURSIVE RStrip(_)
RStrip(s) ==
    IF s # <<>> /\ s[Len(s)] \in Whitespace
    THEN RStrip(SubSeq(s, 1, Len(s) - 1))
    ELSE s

Strip(s) == RStrip(LStrip(s))

RECURSIVE Split(_)
Split(s) ==
    IF \E i \in 1..Len(s) : s[i] = ","
    THEN LET i == CHOOSE j \in 1..Len(s) :
                      s[j] = "," /\ \A h \in 1..(j - 1) : s[h] # ","
         IN  <<SubSeq(s, 1, i - 1)>> \o Split(SubSeq(s, i + 1, Len(s)))
    ELSE <<s>>

(***************************************************************************)
(* Collaborators outside the file                                          *)
(***************************************************************************)
xgboost == <<"x", "g", "b", "o", "o", "s", "t">>
k_means == <<"k", "-", "m", "e", "a", "n", "s">>
kmeans == <<"k", "m", "e", "a", "n", "s">>

\* human-readable name -> canonical service identifier
built_in_algos == (xgboost :> xgboost) @@ (k_means :> kmeans)

Values(m) == {m[k] : k \in DOMAIN m}

get_image_uri(region, algo) == region \o <<".ecr/">> \o algo

_get_request_template ==
    [TrainingJobName |-> <<>>,
     RoleArn |-> <<>>,
     HyperParameters |-> EmptyMap,
     AlgorithmSpecification |->
        [TrainingImage |-> <<>>, AlgorithmName |-> <<>>,
         TrainingInputMode |-> <<>>, MetricDefinitions |-> <<>>],
     InputDataConfig |-> <<>>,
     OutputDataConfig |-> [KmsKeyId |-> <<>>, S3OutputPath |-> <<>>],
     ResourceConfig |->
        [InstanceType |-> <<>>, InstanceCount |-> 1, VolumeSizeInGB |-> 1,
         VolumeKmsKeyId |-> <<>>],
     VpcConfig |-> [SecurityGroupIds |-> <<>>, Subnets |-> <<>>],
     StoppingCondition |-> [MaxRuntimeInSeconds |-> 86400],
     Tags |-> <<>>,
     EnableNetworkIsolation |-> TRUE,
     EnableInterContainerTrafficEncryption |-> FALSE]

_create_hyperparameters(in) ==
    IF "hyperparameters" \in DOMAIN in THEN in.hyperparameters ELSE EmptyMap

_generate_unique_timestamped_id(prefix, t) == <<prefix, "-", ToString(t)>>

NoError == [kind |-> "none", message |-> <<>>, origin |-> "none"]

Raise(kind, message, origin) ==
    [kind |-> kind, message |-> message, origin |-> origin]

(***************************************************************************)
(* _create_job_request (lines 71-183)                                      *)
(***************************************************************************)
Present(m, k) == k \in DOMAIN m /\ m[k] # <<>>

NonZero(m, k) == k \in DOMAIN m /\ m[k] # 0

\* the name lower-cased but not trimmed
NormalizeAlgorithmName_NoStrip(s) == Lower(s)

\* line 100: spec.inputs.get("algorithm_name").lower().strip()
NormalizeAlgorithmName(s) == Strip(Lower(s))

\* lines 98-122
AlgorithmByName(r, in) ==
    LET algo_name == NormalizeAlgorithmName(Get(in, "algorithm_name"))
    IN  IF algo_name \in DOMAIN built_in_algos
        THEN PopIn(PutIn(r, "AlgorithmSpecification", "TrainingImage",
                         get_image_uri(Get(in, "region"), built_in_algos[algo_name])),
                   "AlgorithmSpecification", "AlgorithmName")
        ELSE IF algo_name \in Values(built_in_algos)
        THEN PopIn(PutIn(r, "AlgorithmSpecification", "TrainingImage",
                         get_image_uri(Get(in, "region"), algo_name)),
                   "AlgorithmSpecification", "AlgorithmName")
        ELSE PopIn(PutIn(r, "AlgorithmSpecification", "AlgorithmName",
                         Get(in, "algorithm_name")),
                   "AlgorithmSpecification", "TrainingImage")

\* the image branch without its pop of AlgorithmName
AlgorithmSelection_KeepsName(r, in) ==
    IF Truthy(Get(in, "image"))
    THEN PutIn(r, "AlgorithmSpecification", "TrainingImage", Get(in, "image"))
    ELSE AlgorithmByName(r, in)

\* lines 93-122
AlgorithmSelection(r, in) ==
    IF Truthy(Get(in, "image"))
    THEN PopIn(PutIn(r, "AlgorithmSpecification", "TrainingImage", Get(in, "image")),
               "AlgorithmSpecification", "AlgorithmName")
    ELSE AlgorithmByName(r, in)

\* lines 88-91, 106-108, 115-117: what the selection logs
AlgorithmSelectionLog(in) ==
    IF Truthy(Get(in, "image"))
    THEN IF Truthy(Get(in, "algorithm_name"))
         THEN <<[level |-> "error", text |-> "Both image and algorithm name inputted"]>>
         ELSE <<>>
    ELSE LET algo_name == NormalizeAlgorithmName(Get(in, "algorithm_name"))
         IN  IF algo_name \in DOMAIN built_in_algos \/ algo_name \in Values(built_in_algos)
             THEN <<[level |-> "warning", text |-> "Using built-in algorithm"]>>
             ELSE <<>>

\* lines 124-131
MetricDefinitions(r, in) ==
    IF Present(in, "metric_definitions")
    THEN PutIn(r, "AlgorithmSpecification", "MetricDefinitions",
               r.AlgorithmSpecification.MetricDefinitions \o
               [i \in 1..Len(in.metric_definitions) |->
                    [Name |-> in.metric_definitions[i][1],
                     Regex |-> in.metric_definitions[i][2]]])
    ELSE PopIn(r, "AlgorithmSpecification", "MetricDefinitions")

\* the block kept when either of its two fields is supplied
VpcConfig_Either(r, in) ==
    IF Truthy(Get(in, "vpc_security_group_ids")) \/ Truthy(Get(in, "vpc_subnets"))
    THEN PutIn(PutIn(r, "VpcConfig", "SecurityGroupIds",
                     Split(Get(in, "vpc_security_group_ids"))),
               "VpcConfig", "Subnets", Split(Get(in, "vpc_subnets")))
    ELSE Pop(r, "VpcConfig")

\* lines 133-140
VpcConfig(r, in) ==
    IF Truthy(Get(in, "vpc_security_group_ids")) /\ Truthy(Get(in, "vpc_subnets"))
    THEN PutIn(PutIn(r, "VpcConfig", "SecurityGroupIds",
                     Split(in.vpc_security_group_ids)),
               "VpcConfig", "Subnets", Split(in.vpc_subnets))
    ELSE Pop(r, "VpcConfig")

\* the check with >= for >
HasInputChannel_OrNone(in) == Len(in.channels) >= 0

\* line 143
HasInputChannel(in) == Len(in.channels) > 0

\* lines 144, 149-162
DataAndResourceConfig(r, in) ==
    LET r1 == Put(r, "InputDataConfig", in.channels)
        r2 == PutIn(r1, "OutputDataConfig", "S3OutputPath", Get(in, "model_artifact_path"))
        r3 == PutIn(r2, "OutputDataConfig", "KmsKeyId", Get(in, "output_encryption_key"))
        r4 == PutIn(r3, "ResourceConfig", "InstanceType", Get(in, "instance_type"))
        r5 == PutIn(r4, "ResourceConfig", "VolumeKmsKeyId",
                    Get(in, "resource_encryption_key"))
        r6 == Put(r5, "EnableNetworkIsolation", in.network_isolation)
    IN  Put(r6, "EnableInterContainerTrafficEncryption", in.traffic_encryption)

\* lines 164-176
NumericOverrides(r, in) ==
    LET r1 == IF NonZero(in, "instance_count")
              THEN PutIn(r, "ResourceConfig", "InstanceCount", in.instance_count)
              ELSE r
        r2 == IF NonZero(in, "volume_size")
              THEN PutIn(r1, "ResourceConfig", "VolumeSizeInGB", in.volume_size)
              ELSE r1
    IN  IF NonZero(in, "max_run_time")
        THEN PutIn(r2, "StoppingCondition", "MaxRuntimeInSeconds", in.max_run_time)
        ELSE r2

\* base class: spot training needs a maximum wait time
SpotConsistent(in) ==
    ("spot_instance" \in DOMAIN in /\ in.spot_instance) => NonZero(in, "max_wait_time")

_enable_spot_instance_support(r, in) ==
    IF "spot_instance" \in DOMAIN in /\ in.spot_instance
    THEN PutIn(Put(Put(r, "EnableManagedSpotTraining", TRUE),
                   "CheckpointConfig", Get(in, "checkpoint_config")),
               "StoppingCondition", "MaxWaitTimeInSeconds", in.max_wait_time)
    ELSE r

\* lines 180-181
Tags(r, in) ==
    LET tags == IF "tags" \in DOMAIN in THEN in.tags ELSE <<>>
    IN  Put(r, "Tags",
            r.Tags \o [i \in 1..Len(tags) |-> [Key |-> tags[i][1], Value |-> tags[i][2]]])

CouldNotCreate == Raise("Exception", <<"Could not create job request">>,
                        "_create_job_request")

NoRequest == EmptyMap

_create_job_request(in, name) ==
    LET r0 == Put(_get_request_template, "TrainingJobName", name)
        r1 == Put(r0, "RoleArn", Get(in, "role"))
        r2 == Put(r1, "HyperParameters", _create_hyperparameters(in))
        r3 == PutIn(r2, "AlgorithmSpecification", "TrainingInputMode",
                    Get(in, "training_input_mode"))
    IN  IF ~Truthy(Get(in, "image")) /\ ~Truthy(Get(in, "algorithm_name"))
        THEN [error |-> CouldNotCreate, request |-> NoRequest,
              log |-> <<[level |-> "error",
                         text |-> "Please specify training image or algorithm name."]>>]
        ELSE LET r4 == VpcConfig(MetricDefinitions(AlgorithmSelection(r3, in), in), in)
                 l4 == AlgorithmSelectionLog(in)
             IN  IF ~HasInputChannel(in)
                 THEN [error |-> CouldNotCreate, request |-> NoRequest,
                       log |-> Append(l4, [level |-> "error",
                                  text |-> "Must specify at least one input channel."])]
                 ELSE IF ~SpotConsistent(in)
                 THEN [error |-> CouldNotCreate, request |-> NoRequest, log |-> l4]
                 ELSE [error |-> NoError,
                       request |-> Tags(_enable_spot_instance_support(
                                          NumericOverrides(DataAndResourceConfig(r4, in), in),
                                          in), in),
                       log |-> l4]

(***************************************************************************)
(* The remote training service                                             *)
(***************************************************************************)
RemoteStatuses == {"InProgress", "Stopping", "Stopped", "Completed", "Failed"}

FailureReasons == {<<"OutOfMemory">>, <<"AlgorithmError">>}

\* the status the service reports to the n-th describe of the poll loop
StatusAt(n) == remote[IF n < Len(remote) THEN n ELSE Len(remote)]

\* describe_training_job of the job created from the submitted request
DescribeTrainingJob(n) ==
    [TrainingJobStatus |-> StatusAt(n),
     FailureReason |-> failure_reason,
     ModelArtifacts |->
        [S3ModelArtifacts |-> request.OutputDataConfig.S3OutputPath
                              \o <<"/">> \o request.TrainingJobName \o <<"/model.tar.gz">>],
     AlgorithmSpecification |-> request.AlgorithmSpecification]

\* describe_algorithm of a caller-defined algorithm resource
DescribeAlgorithm(name) ==
    [TrainingSpecification |-> [TrainingImage |-> <<"registry/">> \o name]]

(***************************************************************************)
(* Hooks of the component                                                  *)
(***************************************************************************)
\* lines 33-39
AssignJobName(in, t) ==
    IF Truthy(Get(in, "job_name"))
    THEN Get(in, "job_name")
    ELSE _generate_unique_timestamped_id("TrainingJob", t)

\* lines 43-45: the call _get_job_status makes
_get_job_status_call ==
    [op |-> "describe_training_job", name |-> training_job_name]

\* the classifier with Stopped taken for a failure
_get_job_status_Stopped(response) ==
    LET status == response.TrainingJobStatus
    IN  IF status = "Completed"
        THEN [is_completed |-> TRUE, has_error |-> FALSE, error_message |-> None]
        ELSE IF status \in {"Failed", "Stopped"}
        THEN [is_completed |-> TRUE, has_error |-> TRUE,
              error_message |-> response.FailureReason]
        ELSE [is_completed |-> FALSE, has_error |-> FALSE, error_message |-> None]

\* lines 46-56
_get_job_status(response) ==
    LET status == response.TrainingJobStatus
    IN  IF status = "Completed"
        THEN [is_completed |-> TRUE, has_error |-> FALSE, error_message |-> None]
        ELSE IF status = "Failed"
        THEN [is_completed |-> TRUE, has_error |-> TRUE,
              error_message |-> response.FailureReason]
        ELSE [is_completed |-> FALSE, has_error |-> FALSE, error_message |-> None]

\* lines 205-210
_get_model_artifacts_from_job(info) == info.ModelArtifacts.S3ModelArtifacts

\* lines 212-224
_get_image_from_job(info) ==
    IF "TrainingImage" \in DOMAIN info.AlgorithmSpecification
    THEN info.AlgorithmSpecification.TrainingImage
    ELSE DescribeAlgorithm(info.AlgorithmSpecification.AlgorithmName)
            .TrainingSpecification.TrainingImage

\* lines 58-63
_after_job_complete(out, info) ==
    Put(Put(Put(out, "job_name", training_job_name),
            "model_artifact_url", _get_model_artifacts_from_job(info)),
        "training_image", _get_image_from_job(info))

\* lines 206-208, 213-215, 220: the calls the output extraction makes
_after_job_complete_calls(info) ==
    <<[op |-> "describe_training_job", name |-> training_job_name],
      [op |-> "describe_training_job", name |-> training_job_name]>>
    \o (IF "TrainingImage" \in DOMAIN info.AlgorithmSpecification
        THEN <<>>
        ELSE <<[op |-> "describe_algorithm",
                name |-> info.AlgorithmSpecification.AlgorithmName]>>)

NameError(hook) == Raise("NameError", <<"name 'job_name' is not defined">>, hook)

\* line 66: the job name the stop call is given
_on_job_terminated_name == job_name

\* line 66
_on_job_terminated ==
    IF _on_job_terminated_name = Unbound
    THEN [error |-> NameError("_on_job_terminated"), calls |-> <<>>]
    ELSE [error |-> NoError,
          calls |-> <<[op |-> "stop_training_job", name |-> _on_job_terminated_name]>>]

\* line 69: the log stream the relay is given
_print_logs_for_job_name == job_name

\* line 69
_print_logs_for_job ==
    IF _print_logs_for_job_name = Unbound
    THEN [error |-> NameError("_print_logs_for_job"), calls |-> <<>>]
    ELSE [error |-> NoError,
          calls |-> <<[op |-> "print_cloudwatch_logs",
                       name |-> _print_logs_for_job_name]>>]

\* the request submitted a second time
_submit_job_request_Twice(r) ==
    <<[op |-> "create_training_job", name |-> r.TrainingJobName],
      [op |-> "create_training_job", name |-> r.TrainingJobName]>>

\* lines 185-186
_submit_job_request(r) ==
    <<[op |-> "create_training_job", name |-> r.TrainingJobName]>>

\* lines 188-203
_after_submit_job_request(in) ==
    <<[level |-> "info", text |-> "Created Training Job with name", name |-> training_job_name],
      [level |-> "info", text |-> "Training job in SageMaker", name |-> training_job_name],
      [level |-> "info", text |-> "CloudWatch logs", name |-> training_job_name]>>

(***************************************************************************)
(* Spec values                                                             *)
(***************************************************************************)
Opt(k, vals) == {EmptyMap} \cup {k :> v : v \in vals}

BaseInputs ==
    [role |-> <<"arn:aws:iam::role/train">>,
     training_input_mode |-> <<"File">>,
     model_artifact_path |-> <<"s3://bucket/out">>,
     instance_type |-> <<"ml.m4.xlarge">>,
     region |-> <<"us-east-1">>,
     network_isolation |-> TRUE,
     traffic_encryption |-> FALSE,
     hyperparameters |-> ("epochs" :> <<"10">>)]

ChannelList(n) == [i \in 1..n |-> [ChannelName |-> <<"channel", ToString(i)>>]]

Channels == {"channels" :> ChannelList(n) : n \in 0..MaxChannels}

JobNames == Opt("job_name", {<<>>, <<"my-job">>})

Images == Opt("image", {<<>>, <<"registry/my-image">>})

AlgorithmNames ==
    Opt("algorithm_name",
        {<<>>,
         xgboost,
         <<" ", "X", "G", "B", "o", "o", "s", "t", " ">>,
         <<"K", "-", "M", "e", "a", "n", "s", "\n">>,
         <<"\t", "K", "M", "E", "A", "N", "S">>,
         <<"m", "y", "-", "a", "l", "g", "o">>,
         <<" ">>})

MetricInputs ==
    Opt("metric_definitions", {<<>>, <<<<<<"loss">>, <<"loss=(.*)">>>>>>})

VpcInputs ==
    {a @@ b : a \in Opt("vpc_security_group_ids", {<<>>, <<"sg-1", ",", "sg-2">>}),
              b \in Opt("vpc_subnets", {<<"subnet-1">>})}

EncryptionInputs ==
    {a @@ b : a \in Opt("output_encryption_key", {<<>>, <<"kms-out">>}),
              b \in Opt("resource_encryption_key", {<<"kms-vol">>})}

TagInputs == Opt("tags", {<<>>, <<<<<<"team">>, <<"ml">>>>>>})

NumericInputs ==
    {EmptyMap,
     [instance_count |-> 0, volume_size |-> 0, max_run_time |-> 0],
     [instance_count |-> 2, volume_size |-> 50, max_run_time |-> 3600]}

SpotInputs ==
    {EmptyMap,
     [spot_instance |-> FALSE],
     [spot_instance |-> TRUE],
     [spot_instance |-> TRUE, max_wait_time |-> 7200,
      checkpoint_config |-> [S3Uri |-> <<"s3://bucket/ckpt">>]]}

\* every optional block absent, or every one supplied
OptionalBlocks ==
    {EmptyMap,
     [metric_definitions |-> <<<<<<"loss">>, <<"loss=(.*)">>>>>>,
      vpc_security_group_ids |-> <<"sg-1", ",", "sg-2">>,
      vpc_subnets |-> <<"subnet-1">>,
      output_encryption_key |-> <<"kms-out">>,
      resource_encryption_key |-> <<"kms-vol">>,
      tags |-> <<<<<<"team">>, <<"ml">>>>>>]}

\* the Specs the request builder is applied to: every way to select the
\* algorithm, and every way to supply the optional blocks
BuildSpecs ==
    {BaseInputs @@ c @@ j @@ i @@ a @@ s @@ o :
        c \in Channels, j \in Opt("job_name", {<<"my-job">>}), i \in Images,
        a \in AlgorithmNames, s \in SpotInputs, o \in OptionalBlocks}
    \cup
    {BaseInputs @@ c @@ i @@ m @@ v @@ e @@ t @@ n :
        c \in Channels,
        i \in {"image" :> <<"registry/my-image">>, "algorithm_name" :> k_means},
        m \in MetricInputs, v \in VpcInputs, e \in EncryptionInputs,
        t \in TagInputs, n \in NumericInputs}

\* the Specs a whole run is followed for
RunSpecs ==
    {BaseInputs @@ c @@ j @@ i @@ a :
        c \in Channels, j \in JobNames, i \in Opt("image", {<<"registry/my-image">>}),
        a \in Opt("algorithm_name",
                  {<<" ", "X", "G", "B", "o", "o", "s", "t", " ">>,
                   <<"m", "y", "-", "a", "l", "g", "o">>})}

Scripts == UNION {[1..n -> RemoteStatuses] : n \in 1..MaxObs}

MaxPolls == MaxObs + 1

(***************************************************************************)
(* The run                                                                 *)
(***************************************************************************)
Fresh ==
    /\ outputs = EmptyMap
    /\ training_job_name = None
    /\ request = NoRequest
    /\ state = "Created"
    /\ pc = "Do"
    /\ error = NoError
    /\ log = <<>>
    /\ calls = <<>>
    /\ lookups = <<>>
    /\ polls = 0

Init ==
    /\ inputs \in RunSpecs
    /\ job_name \in {Unbound, <<"stale-job">>}
    /\ remote \in Scripts
    /\ failure_reason \in FailureReasons
    /\ now \in 0..MaxClock
    /\ Fresh

InitBuild ==
    /\ inputs \in BuildSpecs
    /\ job_name = Unbound
    /\ remote = <<"Completed">>
    /\ failure_reason = <<"OutOfMemory">>
    /\ now = 0
    /\ Fresh

\* lines 32-40
Do ==
    /\ pc = "Do"
    /\ training_job_name' = AssignJobName(inputs, now)
    /\ pc' = "create_job_request"
    /\ UNCHANGED <<inputs, outputs, job_name, request, state, error, log, calls,
                   lookups, remote, failure_reason, polls, now>>

\* Created: the request builder runs; a failure ends the run before any call
CreateJobRequest ==
    /\ pc = "create_job_request"
    /\ LET built == _create_job_request(inputs, training_job_name)
       IN  /\ log' = log \o built.log
           /\ error' = built.error
           /\ request' = built.request
           /\ pc' = IF built.error = NoError THEN "submit_job_request" ELSE "exit"
    /\ UNCHANGED <<inputs, outputs, training_job_name, job_name, state, calls,
                   lookups, remote, failure_reason, polls, now>>

\* Created -> Submitted: the service accepts the request or rejects it
SubmitJobRequest ==
    /\ pc = "submit_job_request"
    /\ calls' = calls \o _submit_job_request(request)
    /\ \E accepted \in BOOLEAN :
          IF accepted
          THEN /\ state' = "Submitted"
               /\ pc' = "after_submit_job_request"
               /\ error' = error
          ELSE /\ state' = state
               /\ pc' = "exit"
               /\ error' = Raise("SubmissionError", <<"ResourceInUse">>,
                                 "_submit_job_request")
    /\ UNCHANGED <<inputs, outputs, training_job_name, job_name, request, log,
                   lookups, remote, failure_reason, polls, now>>

\* Submitted -> Polling
AfterSubmitJobRequest ==
    /\ pc = "after_submit_job_request"
    /\ log' = log \o _after_submit_job_request(inputs)
    /\ state' = "Polling"
    /\ pc' = "poll"
    /\ UNCHANGED <<inputs, outputs, training_job_name, job_name, request, error,
                   calls, lookups, remote, failure_reason, polls, now>>

Polling == pc = "poll" /\ polls < MaxPolls

\* Polling -> Polling: the job is running, its logs are relayed
PollRunning ==
    /\ Polling
    /\ LET status == _get_job_status(DescribeTrainingJob(polls + 1))
           relay == _print_logs_for_job
       IN  /\ ~status.is_completed
           /\ calls' = Append(calls, _get_job_status_call) \o relay.calls
           /\ lookups' = Append(lookups, [hook |-> "_print_logs_for_job",
                                          name |-> _print_logs_for_job_name])
           /\ error' = relay.error
           /\ pc' = IF relay.error = NoError THEN "poll" ELSE "exit"
    /\ polls' = polls + 1
    /\ UNCHANGED <<inputs, outputs, training_job_name, job_name, request, state,
                   log, remote, failure_reason, now>>

\* Polling -> Succeeded: outputs are extracted, the last logs relayed
PollCompleted ==
    /\ Polling
    /\ LET info == DescribeTrainingJob(polls + 1)
           status == _get_job_status(info)
           relay == _print_logs_for_job
       IN  /\ status.is_completed /\ ~status.has_error
           /\ outputs' = _after_job_complete(outputs, info)
           /\ calls' = Append(calls, _get_job_status_call)
                       \o _after_job_complete_calls(info) \o relay.calls
           /\ lookups' = Append(lookups, [hook |-> "_print_logs_for_job",
                                          name |-> _print_logs_for_job_name])
           /\ error' = relay.error
    /\ state' = "Succeeded"
    /\ pc' = "exit"
    /\ polls' = polls + 1
    /\ UNCHANGED <<inputs, training_job_name, job_name, request, log, remote,
                   failure_reason, now>>

\* Polling -> Failed: the failure reason is surfaced
PollFailed ==
    /\ Polling
    /\ LET status == _get_job_status(DescribeTrainingJob(polls + 1))
       IN  /\ status.is_completed /\ status.has_error
           /\ error' = Raise("JobFailure", status.error_message, "_get_job_status")
    /\ calls' = Append(calls, _get_job_status_call)
    /\ state' = "Failed"
    /\ pc' = "exit"
    /\ polls' = polls + 1
    /\ UNCHANGED <<inputs, outputs, training_job_name, job_name, request, log,
                   lookups, remote, failure_reason, now>>

\* Polling -> Cancelled: the termination signal runs _on_job_terminated,
\* then the last logs are relayed
Terminate ==
    /\ pc = "poll"
    /\ LET stop == _on_job_terminated
           relay == _print_logs_for_job
       IN  IF stop.error = NoError
           THEN /\ calls' = calls \o stop.calls \o relay.calls
                /\ lookups' = lookups \o
                      <<[hook |-> "_on_job_terminated", name |-> _on_job_terminated_name],
                        [hook |-> "_print_logs_for_job", name |-> _print_logs_for_job_name]>>
                /\ error' = IF relay.error = NoError
                            THEN Raise("Cancelled", <<>>, "Do")
                            ELSE relay.error
           ELSE /\ calls' = calls
                /\ lookups' = Append(lookups, [hook |-> "_on_job_terminated",
                                               name |-> _on_job_terminated_name])
                /\ error' = stop.error
    /\ state' = "Cancelled"
    /\ pc' = "exit"
    /\ UNCHANGED <<inputs, outputs, training_job_name, job_name, request, log,
                   remote, failure_reason, polls, now>>

Next ==
    \/ Do
    \/ CreateJobRequest
    \/ SubmitJobRequest
    \/ AfterSubmitJobRequest
    \/ PollRunning
    \/ PollCompleted
    \/ PollFailed
    \/ Terminate

Spec == Init /\ [][Next]_vars

NextBuild ==
    \/ Do
    \/ CreateJobRequest

SpecBuild == InitBuild /\ [][NextBuild]_vars

(***************************************************************************)
(* Properties                                                              *)
(***************************************************************************)
CallsOf(op) == {i \in 1..Len(calls) : calls[i].op = op}

BuildDone == pc \notin {"Do", "create_job_request"}

Built == BuildDone /\ error # CouldNotCreate

SuppliedImage == "image" \in DOMAIN inputs /\ inputs.image # <<>>

SuppliedAlgorithm == "algorithm_name" \in DOMAIN inputs /\ inputs.algorithm_name # <<>>

ZeroChannels == Len(inputs.channels) = 0

SpotWithoutWait ==
    /\ "spot_instance" \in DOMAIN inputs
    /\ inputs.spot_instance
    /\ "max_wait_time" \notin DOMAIN inputs

TerminalStatus(s) == s \in {"Completed", "Failed"}

\* the remote reports non-terminal statuses, then Completed or Failed
EndsIn(s) ==
    /\ remote[Len(remote)] = s
    /\ \A i \in 1..(Len(remote) - 1) : ~TerminalStatus(remote[i])

\* the run entered Polling and ended without a cancellation
EndedAfterPolling ==
    pc = "exit" /\ state \notin {"Created", "Submitted", "Cancelled"}

\* C1: a Spec with zero input channels, or with neither image nor
\* algorithm_name, makes _create_job_request fail with its validation
\* error; the run ends in Created and create_training_job is never called.
C1_ValidationAbortsBeforeSubmit ==
    (ZeroChannels \/ (~SuppliedImage /\ ~SuppliedAlgorithm)) =>
        /\ CallsOf("create_training_job") = {}
        /\ state = "Created"
        /\ request = NoRequest
        /\ BuildDone => (pc = "exit" /\ error = CouldNotCreate)

C1_Witness ==
    /\ ZeroChannels
    /\ SuppliedImage
    /\ pc = "exit"
    /\ error = CouldNotCreate

\* C2: a built request holds exactly one of TrainingImage and AlgorithmName;
\* a Spec that supplies both image and algorithm_name (and is otherwise
\* valid) builds without error, with TrainingImage the supplied image and no
\* AlgorithmName.
C2_ExactlyOneAlgorithmSource ==
    /\ Built =>
          ("TrainingImage" \in DOMAIN request.AlgorithmSpecification)
              # ("AlgorithmName" \in DOMAIN request.AlgorithmSpecification)
    /\ (BuildDone /\ SuppliedImage /\ SuppliedAlgorithm
            /\ ~ZeroChannels /\ ~SpotWithoutWait) =>
          /\ error = NoError
          /\ pc = "submit_job_request"
          /\ "AlgorithmName" \notin DOMAIN request.AlgorithmSpecification
          /\ "TrainingImage" \in DOMAIN request.AlgorithmSpecification
          /\ request.AlgorithmSpecification.TrainingImage = inputs.image

C2_Witness ==
    /\ SuppliedImage
    /\ SuppliedAlgorithm
    /\ pc = "submit_job_request"
    /\ request.AlgorithmSpecification.TrainingImage = inputs.image
    /\ \E i \in 1..Len(log) : log[i].level = "error"

\* the catalog entries an algorithm name designates once lower-cased and
\* trimmed: by human-readable name or by canonical identifier
MatchingEntries(name) ==
    {k \in DOMAIN built_in_algos :
        Strip(Lower(name)) = k \/ Strip(Lower(name)) = built_in_algos[k]}

\* C3: with no image and an algorithm_name that, lower-cased and trimmed, is
\* a catalog entry's name or canonical identifier, the built request has
\* TrainingImage set to that entry's image and no AlgorithmName.
C3_BuiltInAlgorithmResolved ==
    (Built /\ ~SuppliedImage /\ SuppliedAlgorithm) =>
        \A k \in MatchingEntries(inputs.algorithm_name) :
            /\ "AlgorithmName" \notin DOMAIN request.AlgorithmSpecification
            /\ "TrainingImage" \in DOMAIN request.AlgorithmSpecification
            /\ request.AlgorithmSpecification.TrainingImage
                  = inputs.region \o <<".ecr/">> \o built_in_algos[k]

C3_Witness ==
    /\ Built
    /\ ~SuppliedImage
    /\ SuppliedAlgorithm
    /\ inputs.algorithm_name \notin DOMAIN built_in_algos
    /\ inputs.algorithm_name \notin Values(built_in_algos)
    /\ MatchingEntries(inputs.algorithm_name) # {}
    /\ "TrainingImage" \in DOMAIN request.AlgorithmSpecification

SuppliedVpc ==
    /\ "vpc_security_group_ids" \in DOMAIN inputs
    /\ inputs.vpc_security_group_ids # <<>>
    /\ "vpc_subnets" \in DOMAIN inputs
    /\ inputs.vpc_subnets # <<>>

SuppliedMetrics ==
    "metric_definitions" \in DOMAIN inputs /\ inputs.metric_definitions # <<>>

SuppliedTags == IF "tags" \in DOMAIN inputs THEN inputs.tags ELSE <<>>

SuppliedKey(k) == k \in DOMAIN inputs /\ inputs[k] # <<>>

\* VpcConfig, MetricDefinitions and the Tags entries are there exactly when
\* the Spec supplies them
BlocksFollowSpec ==
    /\ "VpcConfig" \in DOMAIN request <=> SuppliedVpc
    /\ SuppliedVpc =>
          /\ request.VpcConfig.SecurityGroupIds # <<>>
          /\ request.VpcConfig.Subnets # <<>>
          /\ \A i \in 1..Len(request.VpcConfig.SecurityGroupIds) :
                "," \notin {request.VpcConfig.SecurityGroupIds[i][j] :
                               j \in 1..Len(request.VpcConfig.SecurityGroupIds[i])}
    /\ "MetricDefinitions" \in DOMAIN request.AlgorithmSpecification <=> SuppliedMetrics
    /\ SuppliedMetrics =>
          Len(request.AlgorithmSpecification.MetricDefinitions)
              = Len(inputs.metric_definitions)
    /\ Len(request.Tags) = Len(SuppliedTags)
    /\ \A i \in 1..Len(SuppliedTags) :
          request.Tags[i] = [Key |-> SuppliedTags[i][1], Value |-> SuppliedTags[i][2]]

\* C9 as stated: every optional block of a built request, the encryption
\* keys included, is present only when the Spec supplies it, and is omitted
\* rather than sent empty or null otherwise.
C9_OptionalBlocksOmitted ==
    Built =>
        /\ BlocksFollowSpec
        /\ "KmsKeyId" \in DOMAIN request.OutputDataConfig
              <=> SuppliedKey("output_encryption_key")
        /\ "VolumeKmsKeyId" \in DOMAIN request.ResourceConfig
              <=> SuppliedKey("resource_encryption_key")

\* C9 amended: VpcConfig, MetricDefinitions and the Tags entries are present
\* only when the Spec supplies them and are omitted otherwise; the keys
\* OutputDataConfig.KmsKeyId and ResourceConfig.VolumeKmsKeyId are always
\* present and carry the Spec's value as it is, None when absent and the
\* empty string when empty.
C9_BlocksOmittedKeysAlwaysSent ==
    Built =>
        /\ BlocksFollowSpec
        /\ "KmsKeyId" \in DOMAIN request.OutputDataConfig
        /\ request.OutputDataConfig.KmsKeyId =
              (IF "output_encryption_key" \in DOMAIN inputs
               THEN inputs.output_encryption_key ELSE None)
        /\ "VolumeKmsKeyId" \in DOMAIN request.ResourceConfig
        /\ request.ResourceConfig.VolumeKmsKeyId =
              (IF "resource_encryption_key" \in DOMAIN inputs
               THEN inputs.resource_encryption_key ELSE None)

C9_Witness ==
    /\ Built
    /\ "vpc_security_group_ids" \in DOMAIN inputs
    /\ inputs.vpc_security_group_ids # <<>>
    /\ "vpc_subnets" \notin DOMAIN inputs
    /\ "VpcConfig" \notin DOMAIN request
    /\ "output_encryption_key" \in DOMAIN inputs
    /\ request.OutputDataConfig.KmsKeyId = <<>>
    /\ request.ResourceConfig.VolumeKmsKeyId = None

StopCalls == CallsOf("stop_training_job")

\* C4: a cancellation in Polling makes _on_job_terminated issue exactly one
\* stop call, for the run's own job name; the run ends Cancelled with
\* outputs empty.
C4_CancelStopsOwnJob ==
    state = "Cancelled" =>
        /\ Cardinality(StopCalls) = 1
        /\ \A i \in StopCalls : calls[i].name = training_job_name
        /\ outputs = EmptyMap

JobOps ==
    {"create_training_job", "describe_training_job", "stop_training_job",
     "print_cloudwatch_logs"}

\* C7: the job identity assigned at the start of Do is the caller's job_name
\* when supplied and a generated name otherwise, and every operation that
\* names a job uses it: the submitted request, every describe call, the stop
\* call, the log-stream lookup and outputs["job_name"].
C7_OneJobIdentity ==
    /\ pc # "Do" =>
          training_job_name =
              (IF "job_name" \in DOMAIN inputs /\ inputs.job_name # <<>>
               THEN inputs.job_name
               ELSE <<"TrainingJob", "-", ToString(now)>>)
    /\ Built => request.TrainingJobName = training_job_name
    /\ \A i \in 1..Len(calls) :
          calls[i].op \in JobOps => calls[i].name = training_job_name
    /\ \A i \in 1..Len(lookups) : lookups[i].name = training_job_name
    /\ "job_name" \in DOMAIN outputs => outputs.job_name = training_job_name

\* C5: when the remote reports non-terminal statuses and then Completed or
\* Failed, the run ends in exactly one terminal state: Succeeded for
\* Completed, Failed for Failed.
C5_TerminalStatusEndsRun ==
    /\ (EndedAfterPolling /\ EndsIn("Completed")) => state = "Succeeded"
    /\ (EndedAfterPolling /\ EndsIn("Failed")) => state = "Failed"

\* C6: outputs is empty in every state but Succeeded; when the remote
\* reports Running statuses and then Failed, the run ends in Failed, the
\* error surfaced is the remote FailureReason, and nothing is written to
\* outputs.
C6_FailureSurfacedOutputsEmpty ==
    /\ state # "Succeeded" => outputs = EmptyMap
    /\ (EndedAfterPolling /\ EndsIn("Failed")) =>
          /\ state = "Failed"
          /\ error.message = failure_reason
          /\ outputs = EmptyMap

\* C8: create_training_job is called at most once, and exactly once in a run
\* that reaches Polling; when the call fails the failure is surfaced without
\* a retry and the run ends without entering Polling: no describe, log or
\* stop call is made.
C8_SubmitOnce ==
    /\ Cardinality(CallsOf("create_training_job")) <= 1
    /\ state \in {"Submitted", "Polling", "Succeeded", "Failed", "Cancelled"} =>
          Cardinality(CallsOf("create_training_job")) = 1
    /\ error.kind = "SubmissionError" =>
          /\ pc = "exit"
          /\ state = "Created"
          /\ Len(calls) = 1
          /\ calls[1].op = "create_training_job"
          /\ lookups = <<>>
          /\ polls = 0

C8_Witness ==
    /\ error.kind = "SubmissionError"
    /\ pc = "exit"
    /\ Cardinality(CallsOf("create_training_job")) = 1

====
